---- MODULE Spec2Model ----
(***************************************************************************)
(* A model of the request handlers of app.py: the relational tables are    *)
(* the state, each handler (one per route and HTTP method) is one action   *)
(* that covers the whole request up to its commit, and the response is     *)
(* kept in `resp`.                                                         *)
(***************************************************************************)
EXTENDS Integers, Sequences, FiniteSets, TLC

VARIABLES
    kids,          \* table `kids`: sequence of rows, the row id is the index
    tokens,        \* kid ids for which login has issued an access token
    tags,          \* table `tags`: sequence of names, the row id is the index
    interests,     \* table `interests`: sequence of rows [kid_id, tag_id]
    tasks,         \* table `tasks`: set of rows [id, kid_id, text, order, done]
    propositions,  \* table `propositions`: sequence of rows
    req,           \* the request handled last
    resp,          \* the response to it
    reached,       \* history: kid ids whose committed balance has ever been >= 1000
    sessions       \* add-points requests in flight (concurrent specification only)

dbVars == <<kids, tags, interests, tasks, propositions>>
vars == <<kids, tokens, tags, interests, tasks, propositions, req, resp, reached, sessions>>

----------------------------------------------------------------------------
(* Program constants *)

MENTORSHIP_REQUIRES == 1000
DefaultPoints == 100
DefaultPointsRequired == 0

(* JSON null / SQL NULL / a key the request leaves out *)
None == "None"

MentorshipState == {"not_enough_points", "uninitialized", "waiting", "mentored"}
DefaultMentorship == "not_enough_points"

----------------------------------------------------------------------------
(* Bounds and input domains *)

(* Balances are kept within -500 * MaxDebt .. 500 * MaxPoints *)
MaxPoints == 3
MaxDebt == 1
MaxTasks == 3
MaxGoalTasks == 2
MaxGoalTaskId == 3
MaxUpdateTasks == 2
MaxProps == 2
MaxNames == 2

AccountIds == {"acc1", "acc2"}
PhoneNumbers == {"p1", "p2"}
Amounts == {-500, 500}
InitialPoints == {1000}
Goals == {"g1"}
Texts == {"t1"}
Orders == {0, 1, 2}
TagNames == {"music", "art"}
PointsRequired == {100, 600}
Requests == {"r1", "r2"}

OwnPhone(a) == IF a = "acc1" THEN "p1" ELSE "p2"
InRange(p) == -500 * MaxDebt <= p /\ p <= 500 * MaxPoints

----------------------------------------------------------------------------
(* Helpers *)

KidIds == 1..Len(kids)
KidsByAccount(a) == {i \in KidIds : kids[i].account_id = a}
KidsByPhone(p) == {i \in KidIds : kids[i].phone_number = p}

Unhandled(r) ==
    /\ req' = r
    /\ resp' = [status |-> 500]
    /\ UNCHANGED <<dbVars, tokens, reached, sessions>>

----------------------------------------------------------------------------
(* POST /kids *)

(* The row is built from the keys of the JSON body: a column the JSON object does not name takes its
   default. The NOT NULL columns name and birth_date are taken as supplied. *)
Get(json, key, default) == IF key \in DOMAIN json THEN json[key] ELSE default

NewKid(json) ==
    [account_id   |-> Get(json, "account_id", None),
     phone_number |-> Get(json, "phone_number", None),
     goal         |-> Get(json, "goal", None),
     points       |-> Get(json, "points", DefaultPoints),
     mentorship   |-> Get(json, "mentorship", DefaultMentorship)]

KidConstraintsHold(row) ==
    /\ row.account_id # None
    /\ KidsByAccount(row.account_id) = {}
    /\ row.phone_number # None => KidsByPhone(row.phone_number) = {}

add_kid(json) ==
    LET r == [op |-> "add_kid"]
        new_kid == NewKid(json)
    IN  IF KidConstraintsHold(new_kid)
        THEN /\ kids' = Append(kids, new_kid)
             /\ reached' = IF new_kid.points >= MENTORSHIP_REQUIRES
                           THEN reached \cup {Len(kids) + 1} ELSE reached
             /\ req' = r
             /\ resp' = [status |-> 201]
             /\ UNCHANGED <<tokens, tags, interests, tasks, propositions, sessions>>
        ELSE Unhandled(r)

----------------------------------------------------------------------------
(* POST /login *)

(* login without the test that the stored phone number is unset *)
login_rebinds(phone_number, account_id) ==
    LET r == [op |-> "login", phone_number |-> phone_number, account_id |-> account_id]
        found == KidsByAccount(account_id)
    IN  IF found = {}
        THEN /\ req' = r
             /\ resp' = [status |-> 400]
             /\ UNCHANGED <<dbVars, tokens, reached, sessions>>
        ELSE LET id == CHOOSE i \in found : TRUE
                 kid == kids[id]
             IN  IF phone_number # None /\ KidsByPhone(phone_number) \ {id} # {}
                 THEN Unhandled(r)
                 ELSE /\ kids' = [kids EXCEPT ![id].phone_number = phone_number]
                      /\ tokens' = tokens \cup {id}
                      /\ req' = r
                      /\ resp' = [status |-> 200, token |-> id, register |-> (kid.goal = None)]
                      /\ UNCHANGED <<tags, interests, tasks, propositions, reached, sessions>>

login(phone_number, account_id) ==
    LET r == [op |-> "login", phone_number |-> phone_number, account_id |-> account_id]
        found == KidsByAccount(account_id)
    IN  IF found = {}
        THEN /\ req' = r
             /\ resp' = [status |-> 400]
             /\ UNCHANGED <<dbVars, tokens, reached, sessions>>
        ELSE LET id == CHOOSE i \in found : TRUE
                 kid == kids[id]
             IN  IF kid.phone_number = None /\ phone_number # None
                    /\ KidsByPhone(phone_number) # {}
                 THEN Unhandled(r)
                 ELSE /\ kids' = IF kid.phone_number = None
                                 THEN [kids EXCEPT ![id].phone_number = phone_number]
                                 ELSE kids
                      /\ tokens' = tokens \cup {id}
                      /\ req' = r
                      /\ resp' = [status |-> 200, token |-> id, register |-> (kid.goal = None)]
                      /\ UNCHANGED <<tags, interests, tasks, propositions, reached, sessions>>

----------------------------------------------------------------------------
(* POST /kids/points/add *)

(* add_points with the threshold test written as a strict comparison *)
add_points_strict(account_id, amount) ==
    LET r == [op |-> "add_points", account_id |-> account_id, amount |-> amount]
        found == KidsByAccount(account_id)
    IN  IF found = {}
        THEN Unhandled(r)
        ELSE LET id == CHOOSE i \in found : TRUE
                 points == kids[id].points + amount
                 mentorship ==
                     IF points > MENTORSHIP_REQUIRES
                        /\ kids[id].mentorship = "not_enough_points"
                     THEN "uninitialized"
                     ELSE kids[id].mentorship
             IN  /\ InRange(points)
                 /\ kids' = [kids EXCEPT ![id].points = points,
                                         ![id].mentorship = mentorship]
                 /\ reached' = IF points >= MENTORSHIP_REQUIRES
                               THEN reached \cup {id} ELSE reached
                 /\ req' = r
                 /\ resp' = [status |-> 200]
                 /\ UNCHANGED <<tokens, tags, interests, tasks, propositions, sessions>>

add_points(account_id, amount) ==
    LET r == [op |-> "add_points", account_id |-> account_id, amount |-> amount]
        found == KidsByAccount(account_id)
    IN  IF found = {}
        THEN Unhandled(r)
        ELSE LET id == CHOOSE i \in found : TRUE
                 points == kids[id].points + amount
                 mentorship ==
                     IF points >= MENTORSHIP_REQUIRES
                        /\ kids[id].mentorship = "not_enough_points"
                     THEN "uninitialized"
                     ELSE kids[id].mentorship
             IN  /\ InRange(points)
                 /\ kids' = [kids EXCEPT ![id].points = points,
                                         ![id].mentorship = mentorship]
                 /\ reached' = IF points >= MENTORSHIP_REQUIRES
                               THEN reached \cup {id} ELSE reached
                 /\ req' = r
                 /\ resp' = [status |-> 200]
                 /\ UNCHANGED <<tokens, tags, interests, tasks, propositions, sessions>>

----------------------------------------------------------------------------
(* POST /kids/mentor/ready *)

wait_for_mentor(identity) ==
    /\ identity \in tokens
    /\ kids' = [kids EXCEPT ![identity].mentorship = "waiting"]
    /\ req' = [op |-> "wait_for_mentor", identity |-> identity]
    /\ resp' = [status |-> 200]
    /\ UNCHANGED <<tokens, tags, interests, tasks, propositions, reached, sessions>>

----------------------------------------------------------------------------
(* POST|PUT /kids/goal *)

TasksOf(kid_id) == {t \in tasks : t.kid_id = kid_id}

(* set_goal deleting the tasks whatever the method *)
set_goal_always_clears(method, identity, goal) ==
    /\ identity \in tokens
    /\ kids' = [kids EXCEPT ![identity].goal = goal]
    /\ tasks' = tasks \ TasksOf(identity)
    /\ req' = [op |-> "set_goal", method |-> method, identity |-> identity, goal |-> goal]
    /\ resp' = [status |-> 200]
    /\ UNCHANGED <<tokens, tags, interests, propositions, reached, sessions>>

set_goal(method, identity, goal) ==
    /\ identity \in tokens
    /\ kids' = [kids EXCEPT ![identity].goal = goal]
    /\ tasks' = IF method = "POST" THEN tasks \ TasksOf(identity) ELSE tasks
    /\ req' = [op |-> "set_goal", method |-> method, identity |-> identity, goal |-> goal]
    /\ resp' = [status |-> 200]
    /\ UNCHANGED <<tokens, tags, interests, propositions, reached, sessions>>

----------------------------------------------------------------------------
(* GET|POST|PUT /kids/goal/tasks *)

TaskIdsInUse == {t.id : t \in tasks}
TaskById(id) == CHOOSE t \in tasks : t.id = id

(* The integer primary key the store gives a new row: one more than the
   largest in the table (SQLite, the default database). *)
NextTaskId ==
    IF tasks = {} THEN 1
    ELSE (CHOOSE m \in TaskIdsInUse : \A i \in TaskIdsInUse : i <= m) + 1

(* The orders in which a query without ORDER BY may load the rows of S *)
LoadOrders(S) ==
    LET n == Cardinality(S)
    IN  {s \in [1..n -> S] : \A i, j \in 1..n : i # j => s[i] # s[j]}

(* sorted(..., key=lambda t: t.order): Python's sort is stable. insert puts x
   behind every element whose order is not larger. *)
InsertByOrder(s, x) ==
    LET i == Cardinality({j \in 1..Len(s) : s[j].order <= x.order})
    IN  SubSeq(s, 1, i) \o <<x>> \o SubSeq(s, i + 1, Len(s))

RECURSIVE sorted(_)
(* sorted that returns the rows as they were loaded *)
sorted_unsorted(s) == s

sorted(s) ==
    IF s = <<>> THEN <<>>
    ELSE InsertByOrder(sorted(SubSeq(s, 1, Len(s) - 1)), s[Len(s)])

TaskJson(t) == [id |-> t.id, text |-> t.text, done |-> t.done]

manage_tasks_GET(identity) ==
    /\ identity \in tokens
    /\ \E loaded \in LoadOrders(TasksOf(identity)) :
         LET ordered == sorted(loaded)
         IN  resp' = [status |-> 200,
                      tasks |-> [i \in 1..Len(ordered) |-> TaskJson(ordered[i])]]
    /\ req' = [op |-> "manage_tasks", method |-> "GET", identity |-> identity]
    /\ UNCHANGED <<dbVars, tokens, reached, sessions>>

manage_tasks_POST(identity, text, order) ==
    /\ identity \in tokens
    /\ tasks' = tasks \cup {[id |-> NextTaskId, kid_id |-> identity, text |-> text,
                             order |-> order, done |-> FALSE]}
    /\ req' = [op |-> "manage_tasks", method |-> "POST", identity |-> identity]
    /\ resp' = [status |-> 201]
    /\ UNCHANGED <<kids, tokens, tags, interests, propositions, reached, sessions>>

(* manage_tasks PUT that looks the task up among the requesting kid's tasks *)
manage_tasks_PUT_own_only(identity, task_id, done) ==
    LET r == [op |-> "manage_tasks", method |-> "PUT", identity |-> identity,
              id |-> task_id, done |-> done]
    IN  /\ identity \in tokens
        /\ req' = r
        /\ IF task_id \notin {t.id : t \in TasksOf(identity)}
           THEN /\ resp' = [status |-> 404]
                /\ UNCHANGED <<dbVars, tokens, reached, sessions>>
           ELSE /\ tasks' = (tasks \ {TaskById(task_id)})
                                \cup {[TaskById(task_id) EXCEPT !.done = done]}
                /\ resp' = [status |-> 200]
                /\ UNCHANGED <<kids, tokens, tags, interests, propositions, reached, sessions>>

manage_tasks_PUT(identity, task_id, done) ==
    LET r == [op |-> "manage_tasks", method |-> "PUT", identity |-> identity,
              id |-> task_id, done |-> done]
    IN  /\ identity \in tokens
        /\ req' = r
        /\ IF task_id \notin TaskIdsInUse
           THEN /\ resp' = [status |-> 404]
                /\ UNCHANGED <<dbVars, tokens, reached, sessions>>
           ELSE /\ tasks' = (tasks \ {TaskById(task_id)})
                                \cup {[TaskById(task_id) EXCEPT !.done = done]}
                /\ resp' = [status |-> 200]
                /\ UNCHANGED <<kids, tokens, tags, interests, propositions, reached, sessions>>

----------------------------------------------------------------------------
(* POST /tags *)

TagIds == 1..Len(tags)
TagsByName(name) == {i \in TagIds : tags[i] = name}

(* manage_tags POST on a table without the unique constraint on the name *)
manage_tags_POST_not_unique(tag_name) ==
    /\ req' = [op |-> "manage_tags", method |-> "POST", tag |-> tag_name]
    /\ IF tag_name = None
       THEN /\ resp' = [status |-> 400]
            /\ UNCHANGED <<dbVars, tokens, reached, sessions>>
       ELSE /\ tags' = Append(tags, tag_name)
            /\ resp' = [status |-> 201]
            /\ UNCHANGED <<kids, tokens, interests, tasks, propositions, reached, sessions>>

manage_tags_POST(tag_name) ==
    /\ req' = [op |-> "manage_tags", method |-> "POST", tag |-> tag_name]
    /\ IF tag_name = None \/ TagsByName(tag_name) # {}
       THEN /\ resp' = [status |-> 400]
            /\ UNCHANGED <<dbVars, tokens, reached, sessions>>
       ELSE /\ tags' = Append(tags, tag_name)
            /\ resp' = [status |-> 201]
            /\ UNCHANGED <<kids, tokens, interests, tasks, propositions, reached, sessions>>

----------------------------------------------------------------------------
(* POST /kids/interests *)

InterestRow(kid_id, tag_id) == [kid_id |-> kid_id, tag_id |-> tag_id]
HasInterest(rows, kid_id, tag_id) ==
    \E i \in 1..Len(rows) : rows[i] = InterestRow(kid_id, tag_id)

RECURSIVE AppendInterests(_, _, _)
RECURSIVE AppendInterests_every_append(_, _, _)
(* The loop with every append written to the join table as a new row *)
AppendInterests_every_append(rows, kid_id, names) ==
    IF names = <<>> THEN rows
    ELSE LET found == TagsByName(Head(names))
         IN  IF found = {}
             THEN AppendInterests_every_append(rows, kid_id, Tail(names))
             ELSE AppendInterests_every_append(
                      Append(rows, InterestRow(kid_id, CHOOSE i \in found : TRUE)),
                      kid_id, Tail(names))

(* The loop of add_interests over the names, as it reaches the join table.
   Each tag query flushes the appends made so far, and a flush inserts a row
   only for a member the collection did not hold when it was loaded or last
   flushed: appending a tag the kid already has adds no row (the join table's
   primary key is (kid_id, tag_id)). *)
AppendInterests(rows, kid_id, names) ==
    IF names = <<>> THEN rows
    ELSE LET found == TagsByName(Head(names))
         IN  IF found = {}
             THEN AppendInterests(rows, kid_id, Tail(names))
             ELSE LET tag_id == CHOOSE i \in found : TRUE
                  IN  IF HasInterest(rows, kid_id, tag_id)
                      THEN AppendInterests(rows, kid_id, Tail(names))
                      ELSE AppendInterests(Append(rows, InterestRow(kid_id, tag_id)),
                                           kid_id, Tail(names))

add_interests(identity, names) ==
    /\ identity \in tokens
    /\ interests' = AppendInterests(interests, identity, names)
    /\ req' = [op |-> "add_interests", identity |-> identity, interests |-> names]
    /\ resp' = [status |-> 200]
    /\ UNCHANGED <<kids, tokens, tags, tasks, propositions, reached, sessions>>

----------------------------------------------------------------------------
(* POST /propositions, GET /propositions/card *)

NewProposition(json) ==
    [title           |-> json.title,
     description     |-> Get(json, "description", None),
     image           |-> Get(json, "image", None),
     points_required |-> Get(json, "points_required", DefaultPointsRequired),
     type            |-> Get(json, "type", "code"),
     content         |-> json.content]

manage_propositions_POST(json) ==
    /\ propositions' = Append(propositions, NewProposition(json))
    /\ req' = [op |-> "manage_propositions", method |-> "POST"]
    /\ resp' = [status |-> 201]
    /\ UNCHANGED <<kids, tokens, tags, interests, tasks, reached, sessions>>

CardSummary(propos) ==
    [title       |-> propos.title,
     image       |-> propos.image,
     description |-> propos.description,
     type        |-> propos.type,
     points      |-> propos.points_required]

(* The card with the content shown only above the required points *)
Card_strict(kid, propos) ==
    IF kid.points > propos.points_required
    THEN CardSummary(propos) @@ ("content" :> propos.content)
    ELSE CardSummary(propos)

Card(kid, propos) ==
    IF kid.points >= propos.points_required
    THEN CardSummary(propos) @@ ("content" :> propos.content)
    ELSE CardSummary(propos)

get_proposition_card(identity, id) ==
    LET r == [op |-> "get_proposition_card", identity |-> identity, id |-> id]
    IN  /\ identity \in tokens
        /\ IF id \notin 1..Len(propositions)
           THEN Unhandled(r)
           ELSE /\ req' = r
                /\ resp' = [status |-> 200,
                            proposition |-> Card(kids[identity], propositions[id])]
                /\ UNCHANGED <<dbVars, tokens, reached, sessions>>

----------------------------------------------------------------------------
(* POST /kids/points/add as two requests can interleave: the row is read by
   the SELECT of the query, the new values are computed on the loaded object,
   and the UPDATE that the commit flushes writes the columns that changed. *)

add_points_select(r, account_id, amount) ==
    /\ r \notin DOMAIN sessions
    /\ KidsByAccount(account_id) # {}
    /\ LET id == CHOOSE i \in KidsByAccount(account_id) : TRUE
       IN  sessions' = sessions @@
               (r :> [pc |-> "selected", id |-> id, amount |-> amount,
                      points |-> kids[id].points,
                      mentorship |-> kids[id].mentorship])
    /\ UNCHANGED <<dbVars, tokens, req, resp, reached>>

add_points_commit(r) ==
    /\ r \in DOMAIN sessions
    /\ sessions[r].pc = "selected"
    /\ LET kid == sessions[r]
           points == kid.points + kid.amount
       IN  /\ InRange(points)
           /\ kids' = IF points >= MENTORSHIP_REQUIRES
                         /\ kid.mentorship = "not_enough_points"
                      THEN [kids EXCEPT ![kid.id].points = points,
                                        ![kid.id].mentorship = "uninitialized"]
                      ELSE [kids EXCEPT ![kid.id].points = points]
           /\ reached' = IF points >= MENTORSHIP_REQUIRES
                         THEN reached \cup {kid.id} ELSE reached
           /\ req' = [op |-> "add_points", account_id |-> kids[kid.id].account_id,
                      amount |-> kid.amount]
    /\ sessions' = [sessions EXCEPT ![r].pc = "done"]
    /\ resp' = [status |-> 200]
    /\ UNCHANGED <<tokens, tags, interests, tasks, propositions>>

----------------------------------------------------------------------------
(* Specifications *)

Init ==
    /\ kids = <<>>
    /\ tokens = {}
    /\ tags = <<>>
    /\ interests = <<>>
    /\ tasks = {}
    /\ propositions = <<>>
    /\ req = [op |-> "none"]
    /\ resp = [status |-> 0]
    /\ reached = {}
    /\ sessions = <<>>

(* A JSON object's optional key: present with each value of S, or left out. *)
Optional(key, S) == {<<>>} \cup {key :> v : v \in S}

(* Registration and login as the other specifications use them: a kid is
   created with the column defaults and logs in with its own phone number. *)
Register ==
    \/ \E a \in AccountIds : add_kid("account_id" :> a)
    \/ \E a \in AccountIds : login(OwnPhone(a), a)

(* The handlers that write a points or mentorship column (add_kid,
   add_points, wait_for_mentor) and login, which issues the token that
   wait_for_mentor requires. No other handler assigns either column. *)
NextMentorship ==
    \/ \E a \in Optional("account_id", AccountIds),
          p \in Optional("points", InitialPoints),
          m \in Optional("mentorship", MentorshipState) :
            add_kid(a @@ p @@ m)
    \/ \E a \in AccountIds : login(OwnPhone(a), a)
    \/ \E a \in AccountIds, amount \in Amounts : add_points(a, amount)
    \/ \E id \in tokens : wait_for_mentor(id)

SpecMentorship == Init /\ [][NextMentorship]_vars

----------------------------------------------------------------------------
(* Mentorship state machine: C1, C2 (SpecMentorship) *)

(* Position of a state in the chain not_enough_points -> uninitialized ->
   waiting -> mentored *)
Rank(m) ==
    CASE m = "not_enough_points" -> 0
      [] m = "uninitialized" -> 1
      [] m = "waiting" -> 2
      [] m = "mentored" -> 3

(* C1 as stated: a kid's mentorship is not_enough_points in exactly the
   states in which its balance has never yet been >= 1000. *)
C1_LeavesExactlyAtThreshold ==
    \A k \in KidIds :
        (kids[k].mentorship = "not_enough_points") <=> (k \notin reached)

C1_Step ==
    \A k \in KidIds :
        LET old == kids[k]
            new == kids'[k]
        IN  /\ old.mentorship # "not_enough_points"
                => new.mentorship # "not_enough_points"
            /\ (req'.op = "add_points" /\ resp'.status = 200
                    /\ req'.account_id = old.account_id)
                => /\ new.points = old.points + req'.amount
                   /\ new.mentorship =
                        IF old.mentorship = "not_enough_points"
                           /\ new.points >= MENTORSHIP_REQUIRES
                        THEN "uninitialized"
                        ELSE old.mentorship
            /\ (old.mentorship = "not_enough_points"
                    /\ new.mentorship = "uninitialized")
                => req'.op = "add_points" /\ new.points >= MENTORSHIP_REQUIRES

(* C1 amended: an add-points call moves a kid from not_enough_points to
   uninitialized exactly when the balance it leaves is >= 1000 and otherwise
   leaves the mentorship as it was; only add-points makes that move; and no
   handler puts a kid that has left not_enough_points back into it, whatever
   the balance drops to. *)
C1_AddPointsAdvancesAtThreshold == [][C1_Step]_vars

(* C1 witness: a kid that add-points advanced to uninitialized and whose
   balance a later negative add-points brought below 1000. *)
C1_Witness ==
    \E k \in KidIds :
        /\ kids[k].mentorship = "uninitialized"
        /\ k \in reached
        /\ kids[k].points < MENTORSHIP_REQUIRES
        /\ req.op = "add_points" /\ req.amount < 0
        /\ req.account_id = kids[k].account_id

(* C2 as stated: in every step every kid's mentorship stays the same or
   moves forward along the chain. *)
C2_ForwardOnly ==
    [][\A k \in KidIds : Rank(kids'[k].mentorship) >= Rank(kids[k].mentorship)]_vars

----------------------------------------------------------------------------
(* Login and phone binding: C3 (SpecLogin) *)

NextLogin ==
    \/ \E a \in Optional("account_id", AccountIds),
          ph \in Optional("phone_number", PhoneNumbers) :
            add_kid(a @@ ph)
    \/ \E ph \in PhoneNumbers, a \in AccountIds : login(ph, a)

SpecLogin == Init /\ [][NextLogin]_vars

(* The step is a login for kid k's account_id *)
LoginStepFor(k) == req'.op = "login" /\ req'.account_id = kids[k].account_id

(* C3 as stated: a login for a kid whose phone_number is unset stores the
   phone number of the request; a login for a kid whose phone_number is set
   succeeds and leaves it unchanged. *)
C3_FirstLoginBinds ==
    [][\A k \in KidIds :
        LoginStepFor(k) =>
            /\ resp'.status = 200
            /\ kids'[k].phone_number =
                    IF kids[k].phone_number = None
                    THEN req'.phone_number
                    ELSE kids[k].phone_number]_vars

(* C3 amended: a login for a kid whose phone_number is unset stores the
   request's phone number p when no other kid has p stored, and otherwise
   (the unique constraint on phone_number) fails with a server error and
   stores nothing; a login for a kid whose phone_number is set succeeds and
   changes no kid row; and once set, a kid's phone_number never changes. *)
C3_FirstLoginBindsFreeNumber ==
    [][\A k \in KidIds :
        /\ LoginStepFor(k) =>
              IF kids[k].phone_number # None
              THEN resp'.status = 200 /\ kids' = kids /\ k \in tokens'
              ELSE IF KidsByPhone(req'.phone_number) = {}
                   THEN /\ resp'.status = 200 /\ k \in tokens'
                        /\ kids' = [kids EXCEPT ![k].phone_number = req'.phone_number]
                   ELSE resp'.status = 500 /\ kids' = kids /\ tokens' = tokens
        /\ kids[k].phone_number # None
              => kids'[k].phone_number = kids[k].phone_number]_vars

(* C3 witness: a successful login with a phone number other than the one the
   kid has stored. *)
C3_Witness ==
    /\ req.op = "login" /\ resp.status = 200
    /\ \E k \in KidIds :
          /\ kids[k].account_id = req.account_id
          /\ kids[k].phone_number # None
          /\ kids[k].phone_number # req.phone_number

----------------------------------------------------------------------------
(* Goal setting: C4 (SpecGoal) *)

NextGoal ==
    \/ Register
    \/ \E method \in {"POST", "PUT"}, id \in tokens, goal \in Goals :
          set_goal(method, id, goal)
    \/ /\ Cardinality(tasks) < MaxGoalTasks
       /\ NextTaskId <= MaxGoalTaskId
       /\ \E id \in tokens, text \in Texts, order \in Orders :
            manage_tasks_POST(id, text, order)

SpecGoal == Init /\ [][NextGoal]_vars

(* C4: a POST of the goal sets the requesting kid's goal and removes exactly
   that kid's tasks; a PUT sets the goal and leaves the task table as it was. *)
C4_PostClearsPutKeeps ==
    [][req'.op = "set_goal" =>
         /\ resp'.status = 200
         /\ kids' = [kids EXCEPT ![req'.identity].goal = req'.goal]
         /\ req'.method = "POST" =>
               tasks' = {t \in tasks : t.kid_id # req'.identity}
         /\ req'.method = "PUT" => tasks' = tasks]_vars

(* C4 witness: a PUT of the goal by a kid that has a task has just been
   handled, and the other kid has a task too. *)
C4_Witness ==
    /\ req.op = "set_goal" /\ req.method = "PUT"
    /\ TasksOf(req.identity) # {}
    /\ tasks \ TasksOf(req.identity) # {}

----------------------------------------------------------------------------
(* Task list: C7 (SpecTaskList) *)

NextTaskList ==
    \/ Register
    \/ /\ Cardinality(tasks) < MaxTasks
       /\ \E id \in tokens, text \in Texts, order \in Orders :
            manage_tasks_POST(id, text, order)
    \/ \E id \in tokens : manage_tasks_GET(id)

SpecTaskList == Init /\ [][NextTaskList]_vars

ListIsResponse == req.op = "manage_tasks" /\ req.method = "GET"

(* C7: the list returned holds exactly the requesting kid's tasks, each once,
   in ascending order of the order field. *)
C7_ListSortedAndOwn ==
    ListIsResponse =>
        LET l == resp.tasks
        IN  /\ resp.status = 200
            /\ {l[i].id : i \in 1..Len(l)} = {t.id : t \in TasksOf(req.identity)}
            /\ Len(l) = Cardinality(TasksOf(req.identity))
            /\ \A i \in 1..Len(l) : l[i] = TaskJson(TaskById(l[i].id))
            /\ \A i, j \in 1..Len(l) :
                 i < j => TaskById(l[i].id).order <= TaskById(l[j].id).order

(* C7 witness: a kid's tasks created with orders 2, 0, 1 are listed as
   0, 1, 2. *)
C7_Witness ==
    /\ ListIsResponse
    /\ Len(resp.tasks) = 3
    /\ \A i \in 1..3 : TaskById(resp.tasks[i].id).order = i - 1
    /\ resp.tasks[1].id = 2 /\ resp.tasks[2].id = 3 /\ resp.tasks[3].id = 1

----------------------------------------------------------------------------
(* Task update: C9 (SpecTaskUpdate) *)

NextTaskUpdate ==
    \/ Register
    \/ /\ Cardinality(tasks) < MaxUpdateTasks
       /\ \E id \in tokens, text \in Texts, order \in Orders :
            manage_tasks_POST(id, text, order)
    \/ \E id \in tokens, task_id \in TaskIdsInUse \cup {NextTaskId}, done \in BOOLEAN :
          manage_tasks_PUT(id, task_id, done)

SpecTaskUpdate == Init /\ [][NextTaskUpdate]_vars

UpdateStep == req'.op = "manage_tasks" /\ req'.method = "PUT"

(* C9: an update by any authenticated kid sets the done flag of the task
   with the given id, whoever owns it, and changes nothing else; an id of no
   task is answered 404 and changes nothing. *)
C9_UpdateAnyTaskDoneOnly ==
    [][UpdateStep =>
         /\ kids' = kids
         /\ IF req'.id \in TaskIdsInUse
            THEN /\ resp'.status = 200
                 /\ tasks' = {IF t.id = req'.id THEN [t EXCEPT !.done = req'.done] ELSE t
                                : t \in tasks}
            ELSE resp'.status = 404 /\ tasks' = tasks]_vars

(* C9 witness: a kid has just set the done flag of another kid's task. *)
C9_Witness ==
    /\ req.op = "manage_tasks" /\ req.method = "PUT" /\ resp.status = 200
    /\ req.done
    /\ \E t \in tasks : t.id = req.id /\ t.kid_id # req.identity /\ t.done

----------------------------------------------------------------------------
(* Tags and interests: C6, C8 (SpecTags) *)

RECURSIVE SeqsUpTo(_, _)
SeqsUpTo(S, n) ==
    IF n = 0 THEN {<<>>}
    ELSE SeqsUpTo(S, n - 1) \cup
         {Append(q, x) : q \in {q \in SeqsUpTo(S, n - 1) : Len(q) = n - 1}, x \in S}

NextTags ==
    \/ Register
    \/ \E name \in TagNames : manage_tags_POST(name)
    \/ \E id \in tokens, names \in SeqsUpTo(TagNames, MaxNames) : add_interests(id, names)

SpecTags == Init /\ [][NextTags]_vars

TagCreateStep == req'.op = "manage_tags" /\ req'.method = "POST"

(* C6: no two tag rows have the same name; creating a tag whose name is not
   stored is answered 201 and adds it, creating one whose name is stored is
   answered 400 and leaves the tags unchanged. *)
C6_TagNamesUnique ==
    /\ [](\A i, j \in TagIds : tags[i] = tags[j] => i = j)
    /\ [][TagCreateStep =>
            IF TagsByName(req'.tag) = {}
            THEN resp'.status = 201 /\ tags' = Append(tags, req'.tag)
            ELSE resp'.status = 400 /\ tags' = tags]_vars

(* C6 witness: a second creation of a stored name has been answered 400. *)
C6_Witness ==
    /\ req.op = "manage_tags" /\ req.method = "POST" /\ resp.status = 400
    /\ TagsByName(req.tag) # {}

InterestStep == req'.op = "add_interests"

(* The tags the names of a request resolve to *)
Resolved(names) ==
    {i \in TagIds : \E n \in 1..Len(names) : tags[i] = names[n]}
TagsOfKid(rows, kid_id) ==
    {rows[i].tag_id : i \in {j \in 1..Len(rows) : rows[j].kid_id = kid_id}}
Attachments(rows, kid_id, tag_id) ==
    Cardinality({i \in 1..Len(rows) : rows[i] = InterestRow(kid_id, tag_id)})

(* C8 as stated: attaching responds 200 and adds one row to the kid's
   interests for every listed name that resolves to a tag, in order, also for
   a tag the kid already has and for a name listed twice. *)
C8_AppendsEveryResolvedName ==
    [][InterestStep =>
         /\ resp'.status = 200
         /\ interests' =
              AppendInterests_every_append(interests, req'.identity, req'.interests)]_vars

(* C8 amended: attaching responds 200, skips the names that resolve to no
   tag, and leaves the kid with the tags it had and every tag a listed name
   resolves to, each attached once: a tag the kid already has, or that the
   request names twice, is not attached a second time. No other kid's
   interests change. *)
C8_AttachesEachTagOnce ==
    [][InterestStep =>
         /\ resp'.status = 200
         /\ TagsOfKid(interests', req'.identity) =
               TagsOfKid(interests, req'.identity) \cup Resolved(req'.interests)
         /\ \A t \in TagIds : Attachments(interests', req'.identity, t) <= 1
         /\ \A k \in KidIds \ {req'.identity}, t \in TagIds :
               Attachments(interests', k, t) = Attachments(interests, k, t)
         /\ tags' = tags /\ kids' = kids]_vars

(* C8 witness: a request that named an unknown tag and named a tag twice was
   answered 200 and the kid has that tag. *)
C8_Witness ==
    /\ req.op = "add_interests" /\ resp.status = 200
    /\ Len(req.interests) = 2
    /\ \/ /\ req.interests[1] = req.interests[2]
          /\ Resolved(req.interests) # {}
          /\ Resolved(req.interests) \subseteq TagsOfKid(interests, req.identity)
       \/ /\ TagsByName(req.interests[1]) = {}
          /\ TagsByName(req.interests[2]) # {}
          /\ Resolved(req.interests) \subseteq TagsOfKid(interests, req.identity)

----------------------------------------------------------------------------
(* Proposition card: C5 (SpecCard) *)

PropositionJson(pr) == ("title" :> "title") @@ ("content" :> "content") @@ pr

NextCard ==
    \/ Register
    \/ \E a \in AccountIds, amount \in Amounts : add_points(a, amount)
    \/ /\ Len(propositions) < MaxProps
       /\ \E pr \in Optional("points_required", PointsRequired) :
            manage_propositions_POST(PropositionJson(pr))
    \/ \E id \in tokens, pid \in 1..(Len(propositions) + 1) :
          get_proposition_card(id, pid)

SpecCard == Init /\ [][NextCard]_vars

CardStep == req'.op = "get_proposition_card"

(* C5: the card returned for an existing proposition holds the content
   field exactly when the kid's balance is >= points_required, holds title,
   image, description, type and points in both cases, and the request
   changes no stored state. *)
C5_ContentIffEnoughPoints ==
    [][(CardStep /\ req'.id \in 1..Len(propositions)) =>
         LET kid == kids[req'.identity]
             propos == propositions[req'.id]
             card == resp'.proposition
         IN  /\ resp'.status = 200
             /\ ("content" \in DOMAIN card) <=> (kid.points >= propos.points_required)
             /\ "content" \in DOMAIN card => card.content = propos.content
             /\ {"title", "image", "description", "type", "points"} \subseteq DOMAIN card
             /\ card.title = propos.title /\ card.image = propos.image
             /\ card.description = propos.description /\ card.type = propos.type
             /\ card.points = propos.points_required
             /\ UNCHANGED <<dbVars, tokens>>]_vars

(* C5 witness: a card with the content was returned to a kid whose balance
   equals the points required. *)
C5_Witness ==
    /\ req.op = "get_proposition_card" /\ resp.status = 200
    /\ kids[req.identity].points = propositions[req.id].points_required
    /\ "content" \in DOMAIN resp.proposition

----------------------------------------------------------------------------
(* Interleaved add-points requests: C10 (SpecConcurrent) *)

NextConcurrent ==
    \/ \E a \in AccountIds : add_kid("account_id" :> a)
    \/ \E r \in Requests, a \in AccountIds, amount \in Amounts :
          add_points_select(r, a, amount)
    \/ \E r \in Requests : add_points_commit(r)

SpecConcurrent == Init /\ [][NextConcurrent]_vars

RequestsFor(k) == {r \in DOMAIN sessions : sessions[r].id = k}

RECURSIVE SumAmounts(_)
SumAmounts(R) ==
    IF R = {} THEN 0
    ELSE LET r == CHOOSE x \in R : TRUE
         IN  sessions[r].amount + SumAmounts(R \ {r})

(* C10: when two add-points requests for the same kid, created with the
   default balance and mentorship, have both committed, the balance is the
   initial balance plus both amounts, and the mentorship is uninitialized if
   that balance is >= 1000. *)
C10_NoLostUpdate ==
    \A k \in KidIds :
        (RequestsFor(k) = Requests /\ \A r \in Requests : sessions[r].pc = "done")
        => /\ kids[k].points = DefaultPoints + SumAmounts(Requests)
           /\ kids[k].points >= MENTORSHIP_REQUIRES
                 => kids[k].mentorship = "uninitialized"

====
